---- MODULE Spec2Model ----
(***************************************************************************)
(* romio::uds::UnixListener and its Incoming stream                        *)
(* (src/src/uds/listener.rs).                                              *)
(*                                                                         *)
(* One consumer task pulls the Incoming stream.  A pull runs               *)
(*   Incoming::poll_next -> UnixListener::poll_ready                       *)
(*                       -> UnixListener::poll_accept_std                  *)
(* and the model follows the position of the consumer inside that call     *)
(* chain (pc), so that peers and the reactor interleave with every call    *)
(* the listener makes.  The OS side is the backlog of the listening        *)
(* socket; the reactor side is PollEvented (crate::raw), modelled from its *)
(* uses in listener.rs and from the description of the readiness source:  *)
(* a cached readiness flag in front of the registration's reports.         *)
(***************************************************************************)
EXTENDS Integers, Sequences, FiniteSets

\* Number of peers that may connect.
MaxPeers == 2
\* Number of calls that may fail with an OS / reactor error.
MaxErrs == 2
\* Number of readiness reports the reactor may deliver without a new connection.
MaxSpurious == 1

Peers == 1..MaxPeers

\* The "no accepted socket" value of inflight.
NoPeer == 0

\* Filesystem paths of listening sockets: the path of the examples
\* (lines 31, 57) and a second one.
DocPath == "/tmp/sock"
Paths == {DocPath, "/tmp/x.sock"}
\* The address of an unnamed socket, and "no path".
NoPath == ""

\* Number of UDP ports the OS may assign.
MaxPorts == 2
\* Longest datagram sent.
MaxMsgLen == 3

Ports == 1..MaxPorts
\* Port 0 of "127.0.0.1:0" (tests/udp.rs, lines 26, 33): not a port, the
\* request to be assigned one.
NoPort == 0
Bytes == {0, 1}
NoRecv == [n |-> 0, sender |-> NoPort]

VARIABLES
    backlog,     \* OS: connections queued on the listening socket, oldest first
    connected,   \* history: every peer that connected, in order of arrival
    edge,        \* OS: a readiness edge the reactor has not yet picked up
    event,       \* reactor: readiness of the registration, not yet consumed
    cached,      \* PollEvented: the read-readiness flag of the listener
    wakerReg,    \* reactor: the consumer's waker is registered
    woken,       \* executor: the consumer's waker was woken, a re-poll is due
    pc,          \* consumer: position in poll_next / poll_ready / poll_accept_std
    inflight,    \* the std socket accepted in this poll (poll_ready's `io`)
    items,       \* history: the items poll_next has yielded
    ret,         \* the value the last finished poll_next returned
    rdy,         \* this poll: outcome of poll_read_ready (line 124)
    acc,         \* this poll: outcome of accept_std (line 126)
    nAcc,        \* this poll: number of accept_std calls
    cleared,     \* this poll: clear_read_ready was called
    wakerSet,    \* this poll: the waker was registered with the reactor
    failed,      \* this poll: the call that failed, "no" if none did
    dropped,     \* history: accepted sockets dropped by a failed from_stream
    nErr,        \* history: number of failed calls so far
    nSpur,       \* history: number of reports without a new connection
    nNotify,     \* history: number of readiness reports of the reactor
    nEmpty,      \* history: number of accept_std calls that found nothing
    nAcceptErr,  \* history: number of accept_std calls that failed hard
    nAcceptErrItems, \* history: number of error items of a failed accept_std
    lst,         \* the listener: "none" before construction, "live", "dropped"
    ctor,        \* the constructor that ran last: "bind", "try_from", "none"
    ctorRes,     \* its result: "ok", "err"; "none" if none ran since the drop
    bindArg,     \* the path given to bind
    sockname,    \* OS: the address the listening socket is bound to
    registrable, \* OS: the reactor can register the socket's descriptor
    fs,          \* OS: the paths at which a socket file exists
    prevPath,    \* history: the path of the bound listener dropped last
    upc,         \* tests/udp.rs: position in the test and in exchange
    uctor,       \* tests/udp.rs: how the UdpSocket was made
    uport,       \* OS: the port the UDP socket is bound to, NoPort if none
    uaddr,       \* exchange: addr
    umsg,        \* exchange: the bytes sent
    ubuf,        \* exchange: buf
    uflight,     \* OS: datagrams sent and not yet delivered
    uqueue,      \* OS: receive queue of the UDP socket
    urecv        \* exchange: (n, sender) of recv_from, NoRecv before

vars == <<backlog, connected, edge, event, cached, wakerReg, woken, pc,
          inflight, items, ret, rdy, acc, nAcc, cleared, wakerSet, dropped,
          nErr, nSpur, nNotify, nEmpty, nAcceptErr, nAcceptErrItems, failed,
          lst, ctor, ctorRes, bindArg, sockname, registrable, fs, prevPath,
          upc, uctor, uport, uaddr, umsg, ubuf, uflight, uqueue, urecv>>

osVars == <<backlog, connected, edge>>
reactorVars == <<event, cached, wakerReg>>
pollVars == <<rdy, acc, nAcc, cleared, wakerSet, failed>>
histVars == <<dropped, nErr, nSpur, nNotify, nEmpty, nAcceptErr, nAcceptErrItems>>
lifeVars == <<lst, ctor, ctorRes, bindArg, sockname, registrable, fs, prevPath>>
udpVars == <<upc, uctor, uport, uaddr, umsg, ubuf, uflight, uqueue, urecv>>

Range(s) == {s[i] : i \in 1..Len(s)}

----------------------------------------------------------------------------
(* Items of the stream: io::Result<UnixStream>.                            *)

OkItem(p) == [ok |-> TRUE, peer |-> p]
ErrItem == [ok |-> FALSE, peer |-> NoPeer]

IsOk(it) == it.ok
IsErr(it) == ~it.ok

----------------------------------------------------------------------------
(* PollEvented (crate::raw::PollEvented): the readiness source.            *)

\* poll_read_ready(cx): with the flag set it folds a new report into the
\* flag and answers Ready without registering; otherwise it registers the
\* waker with the registration and consumes its report, if there is one.
PollReadReady(c, e, w) ==
    IF c THEN [res |-> "Ready", cached |-> TRUE, event |-> FALSE, wakerReg |-> w,
               registered |-> FALSE]
    ELSE IF e THEN [res |-> "Ready", cached |-> TRUE, event |-> FALSE,
                    wakerReg |-> TRUE, registered |-> TRUE]
    ELSE [res |-> "Pending", cached |-> FALSE, event |-> FALSE,
          wakerReg |-> TRUE, registered |-> TRUE]

\* clear_read_ready(cx): clears the flag, then queries the registration
\* again with the caller's waker; a report that arrived in the meantime
\* sets the flag again and wakes the caller.
ClearReadReady(c, e, w) ==
    LET r == PollReadReady(FALSE, e, w)
    IN  [cached |-> r.cached, event |-> r.event, wakerReg |-> r.wakerReg,
         registered |-> r.registered, wake |-> r.res = "Ready"]

----------------------------------------------------------------------------
(* The match of poll_accept_std (lines 126-137) on accept_std's outcome:   *)
(*   "conn"       Ok(Some((sock, addr)))                                    *)
(*   "empty"      Ok(None)                                                  *)
(*   "wouldblock" Err(e), e.kind() == WouldBlock                            *)
(*   "err"        Err(e), any other kind                                    *)
(* gives what the function does next.                                      *)
\* Faulty variant: an accepted connection is handled like "no connection".
AcceptArm_ConnAsEmpty(o) ==
    CASE o = "conn"       -> "Clear"
      [] o = "empty"      -> "Clear"
      [] o = "wouldblock" -> "Clear"
      [] o = "err"        -> "ReadyErr"

\* Faulty variant: Ok(None) returns Pending without clearing the readiness flag.
AcceptArm_EmptyNoClear(o) ==
    CASE o = "conn"       -> "ReadyOk"
      [] o = "empty"      -> "Pending"
      [] o = "wouldblock" -> "Clear"
      [] o = "err"        -> "ReadyErr"

\* Faulty variant: WouldBlock returns Pending without clearing the readiness flag.
AcceptArm_WouldBlockNoClear(o) ==
    CASE o = "conn"       -> "ReadyOk"
      [] o = "empty"      -> "Clear"
      [] o = "wouldblock" -> "Pending"
      [] o = "err"        -> "ReadyErr"

\* Faulty variant: the WouldBlock guard is missing, WouldBlock is a hard error.
AcceptArm_WouldBlockAsErr(o) ==
    CASE o = "conn"       -> "ReadyOk"
      [] o = "empty"      -> "Clear"
      [] o = "wouldblock" -> "ReadyErr"
      [] o = "err"        -> "ReadyErr"

\* Faulty variant: every Err is handled like WouldBlock, a hard error is swallowed.
AcceptArm_ErrAsWouldBlock(o) ==
    CASE o = "conn"       -> "ReadyOk"
      [] o = "empty"      -> "Clear"
      [] o = "wouldblock" -> "Clear"
      [] o = "err"        -> "Clear"

\* Faulty variant: a hard error returns Pending.
AcceptArm_ErrAsPending(o) ==
    CASE o = "conn"       -> "ReadyOk"
      [] o = "empty"      -> "Clear"
      [] o = "wouldblock" -> "Clear"
      [] o = "err"        -> "Pending"

AcceptArm(o) ==
    CASE o = "conn"       -> "ReadyOk"
      [] o = "empty"      -> "Clear"
      [] o = "wouldblock" -> "Clear"
      [] o = "err"        -> "ReadyErr"

\* ready!(poll_read_ready(cx)?) (line 124): Pending and Err leave the
\* function, Ready goes on to the accept.
\* Faulty variant: the ready! is missing, the accept runs on Pending too.
ReadyArm_NoReady(r) ==
    CASE r = "Ready"   -> "Accept"
      [] r = "Pending" -> "Accept"
      [] r = "Err"     -> "ReadyErr"

ReadyArm(r) ==
    CASE r = "Ready"   -> "Accept"
      [] r = "Pending" -> "Pending"
      [] r = "Err"     -> "ReadyErr"

\* What poll_accept_std returns after clear_read_ready(cx)? (lines 129-130,
\* 133-134): Pending, or the error of the clear.
ClearArm(ok) == IF ok THEN "Pending" ELSE "ReadyErr"

\* Incoming::poll_next (lines 212-215) on the result of poll_ready:
\* ready!(..?) hands Pending and the error on, a socket is wrapped in
\* Some(Ok(..)).
\* Faulty variant: an error ends the stream.
PollNext_ErrEnds(r) ==
    CASE r = "Pending"  -> "Pending"
      [] r = "ReadyErr" -> "None"
      [] r = "ReadyOk"  -> "SomeOk"

PollNext(r) ==
    CASE r = "Pending"  -> "Pending"
      [] r = "ReadyErr" -> "SomeErr"
      [] r = "ReadyOk"  -> "SomeOk"

----------------------------------------------------------------------------
\* tests/udp.rs before the test starts: no socket, nothing sent.
UdpInit ==
    /\ upc = "start"
    /\ uctor = "none"
    /\ uport = NoPort
    /\ uaddr = NoPort
    /\ umsg = <<>>
    /\ ubuf = <<>>
    /\ uflight = <<>>
    /\ uqueue = <<>>
    /\ urecv = NoRecv

\* A listener right after construction (lines 60-69): nothing queued,
\* nothing registered, nothing polled.
ListenerInit ==
    /\ backlog = <<>>
    /\ connected = <<>>
    /\ edge = FALSE
    /\ event = FALSE
    /\ cached = FALSE
    /\ wakerReg = FALSE
    /\ woken = FALSE
    /\ inflight = NoPeer
    /\ items = <<>>
    /\ ret = "none"
    /\ rdy = "none"
    /\ acc = "none"
    /\ nAcc = 0
    /\ cleared = FALSE
    /\ wakerSet = FALSE
    /\ failed = "no"
    /\ dropped = {}
    /\ nErr = 0
    /\ nSpur = 0
    /\ nNotify = 0
    /\ nEmpty = 0
    /\ nAcceptErr = 0
    /\ nAcceptErrItems = 0

\* The same, as the effect of a step.
ListenerReset ==
    /\ backlog' = <<>>
    /\ connected' = <<>>
    /\ edge' = FALSE
    /\ event' = FALSE
    /\ cached' = FALSE
    /\ wakerReg' = FALSE
    /\ woken' = FALSE
    /\ inflight' = NoPeer
    /\ items' = <<>>
    /\ ret' = "none"
    /\ rdy' = "none"
    /\ acc' = "none"
    /\ nAcc' = 0
    /\ cleared' = FALSE
    /\ wakerSet' = FALSE
    /\ failed' = "no"
    /\ dropped' = {}
    /\ nErr' = 0
    /\ nSpur' = 0
    /\ nNotify' = 0
    /\ nEmpty' = 0
    /\ nAcceptErr' = 0
    /\ nAcceptErrItems' = 0

\* The listener of the example (lines 31-32), bound at DocPath, and its
\* Incoming stream before the first pull.
Init ==
    /\ ListenerInit
    /\ pc = "idle"
    /\ lst = "live"
    /\ ctor = "bind"
    /\ ctorRes = "ok"
    /\ bindArg = DocPath
    /\ sockname = DocPath
    /\ registrable = TRUE
    /\ fs = {DocPath}
    /\ prevPath = NoPath
    /\ UdpInit

\* poll_next returns v to the consumer: an item is appended to what the
\* consumer has seen, Pending suspends it, and None ends its
\* `while let Some(..) = incoming.next().await` loop (lines 36-38).
\* src is the call whose result the poll returns.
Return(v, peer, src) ==
    /\ ret' = v
    /\ items' = CASE v = "SomeOk"  -> Append(items, OkItem(peer))
                  [] v = "SomeErr" -> Append(items, ErrItem)
                  [] OTHER         -> items
    /\ nAcceptErrItems' = IF v = "SomeErr" /\ src = "accept"
                            THEN nAcceptErrItems + 1 ELSE nAcceptErrItems
    /\ pc' = CASE v = "Pending" -> "suspended"
               [] v = "None"    -> "ended"
               [] OTHER         -> "idle"

----------------------------------------------------------------------------
(* The environment: peers and the reactor.                                 *)

\* A peer's connect() succeeds: the connection is queued on the listening
\* socket and the socket signals readability.  Peers are named in their
\* order of arrival.
Connect(p) ==
    /\ lst = "live"
    /\ p = Len(connected) + 1
    /\ backlog' = Append(backlog, p)
    /\ connected' = Append(connected, p)
    /\ edge' = TRUE
    /\ UNCHANGED <<reactorVars, woken, pc, inflight, items, ret, pollVars, histVars,
                   lifeVars, udpVars>>

\* The reactor reports readiness to the registration and wakes the
\* registered waker, which is consumed by the wake.
Report ==
    /\ event' = TRUE
    /\ wakerReg' = FALSE
    /\ woken' = (woken \/ wakerReg)
    /\ nNotify' = nNotify + 1

\* The reactor picks up the readiness edge of the socket.
Notify ==
    /\ lst = "live"
    /\ edge
    /\ edge' = FALSE
    /\ Report
    /\ UNCHANGED <<backlog, connected, cached, pc, inflight, items, ret, pollVars,
                   dropped, nErr, nSpur, nEmpty, nAcceptErr, nAcceptErrItems,
                   lifeVars, udpVars>>

\* A report that corresponds to no new connection (spurious or stale).
SpuriousNotify ==
    /\ lst = "live"
    /\ nSpur < MaxSpurious
    /\ nSpur' = nSpur + 1
    /\ Report
    /\ UNCHANGED <<osVars, cached, pc, inflight, items, ret, pollVars,
                   dropped, nErr, nEmpty, nAcceptErr, nAcceptErrItems,
                   lifeVars, udpVars>>

----------------------------------------------------------------------------
(* The consumer.                                                           *)

StartPoll ==
    /\ pc' = "query"
    /\ rdy' = "none"
    /\ acc' = "none"
    /\ nAcc' = 0
    /\ cleared' = FALSE
    /\ wakerSet' = FALSE
    /\ failed' = "no"

\* The consumer asks for the next item: incoming.next().await.
Pull ==
    /\ pc = "idle"
    /\ StartPoll
    /\ UNCHANGED <<osVars, reactorVars, woken, inflight, items, ret, histVars,
                   lifeVars, udpVars>>

\* The executor polls the suspended consumer again after its waker was woken.
Repoll ==
    /\ pc = "suspended"
    /\ woken
    /\ woken' = FALSE
    /\ StartPoll
    /\ UNCHANGED <<osVars, reactorVars, inflight, items, ret, histVars,
                   lifeVars, udpVars>>

\* poll_accept_std, line 124: the readiness query.  The descriptor is
\* registered with the reactor by the first query, so the query of a
\* descriptor the reactor cannot register fails.
QueryReady ==
    /\ pc = "query"
    /\ \E fail \in {b \in BOOLEAN : (b => nErr < MaxErrs) /\ (~registrable => b)} :
         LET r   == PollReadReady(cached, event, wakerReg)
             res == IF fail THEN "Err" ELSE r.res
             arm == ReadyArm(res)
         IN  /\ rdy' = res
             /\ nErr' = IF fail THEN nErr + 1 ELSE nErr
             /\ failed' = IF fail THEN "query" ELSE failed
             /\ IF fail
                  THEN UNCHANGED <<reactorVars, wakerSet>>
                  ELSE /\ cached' = r.cached
                       /\ event' = r.event
                       /\ wakerReg' = r.wakerReg
                       /\ wakerSet' = r.registered
             /\ IF arm = "Accept"
                  THEN /\ pc' = "accept"
                       /\ UNCHANGED <<items, ret, nAcceptErrItems>>
                  ELSE Return(PollNext(arm), NoPeer, "query")
    /\ UNCHANGED <<osVars, woken, inflight, acc, nAcc, cleared,
                   dropped, nSpur, nNotify, nEmpty, nAcceptErr,
                   lifeVars, udpVars>>

\* The outcomes accept_std can have in the current state of the socket.
AcceptOutcomes ==
    (IF backlog # <<>> THEN {"conn"} ELSE {"empty", "wouldblock"})
      \cup (IF nErr < MaxErrs THEN {"err"} ELSE {})

\* poll_accept_std, lines 126-137: one accept_std and the match on it.
AcceptStd ==
    /\ pc = "accept"
    /\ \E o \in AcceptOutcomes :
         LET arm == AcceptArm(o)
         IN  /\ acc' = o
             /\ nAcc' = nAcc + 1
             /\ backlog' = IF o = "conn" THEN Tail(backlog) ELSE backlog
             /\ inflight' = IF o = "conn" THEN Head(backlog) ELSE inflight
             /\ nErr' = IF o = "err" THEN nErr + 1 ELSE nErr
             /\ failed' = IF o = "err" THEN "accept" ELSE failed
             /\ nAcceptErr' = IF o = "err" THEN nAcceptErr + 1 ELSE nAcceptErr
             /\ nEmpty' = IF o \in {"empty", "wouldblock"} THEN nEmpty + 1 ELSE nEmpty
             /\ CASE arm = "ReadyOk" -> /\ pc' = "from_stream"
                                        /\ UNCHANGED <<items, ret, nAcceptErrItems>>
                  [] arm = "Clear"   -> /\ pc' = "clear"
                                        /\ UNCHANGED <<items, ret, nAcceptErrItems>>
                  [] OTHER           -> Return(PollNext(arm), NoPeer, "accept")
    /\ UNCHANGED <<connected, edge, reactorVars, woken, rdy, cleared, wakerSet,
                   dropped, nSpur, nNotify,
                   lifeVars, udpVars>>

\* poll_accept_std, lines 129-130 and 133-134: clear the flag, return Pending.
ClearReady ==
    /\ pc = "clear"
    /\ \E fail \in {b \in BOOLEAN : b => nErr < MaxErrs} :
         LET r == ClearReadReady(cached, event, wakerReg)
         IN  /\ nErr' = IF fail THEN nErr + 1 ELSE nErr
             /\ failed' = IF fail THEN "clear" ELSE failed
             /\ cleared' = TRUE
             /\ cached' = IF fail THEN FALSE ELSE r.cached
             /\ IF fail
                  THEN UNCHANGED <<event, wakerReg, wakerSet, woken>>
                  ELSE /\ event' = r.event
                       /\ wakerReg' = r.wakerReg
                       /\ wakerSet' = (wakerSet \/ r.registered)
                       /\ woken' = (woken \/ r.wake)
             /\ Return(PollNext(ClearArm(~fail)), NoPeer, "clear")
    /\ UNCHANGED <<osVars, inflight, rdy, acc, nAcc,
                   dropped, nSpur, nNotify, nEmpty, nAcceptErr,
                   lifeVars, udpVars>>

\* poll_ready, lines 148-149, and poll_next, line 214: the accepted std
\* socket is turned into a UnixStream and yielded; a failing from_stream
\* returns its error and drops the socket.
FromStream ==
    /\ pc = "from_stream"
    /\ \E fail \in {b \in BOOLEAN : b => nErr < MaxErrs} :
         /\ nErr' = IF fail THEN nErr + 1 ELSE nErr
         /\ failed' = IF fail THEN "from_stream" ELSE failed
         /\ dropped' = IF fail THEN dropped \cup {inflight} ELSE dropped
         /\ Return(PollNext(IF fail THEN "ReadyErr" ELSE "ReadyOk"), inflight, "from_stream")
    /\ inflight' = NoPeer
    /\ UNCHANGED <<osVars, reactorVars, woken, rdy, acc, nAcc, cleared, wakerSet,
                   nSpur, nNotify, nEmpty, nAcceptErr,
                   lifeVars, udpVars>>

Consumer == Pull \/ Repoll \/ QueryReady \/ AcceptStd \/ ClearReady \/ FromStream

Next ==
    \/ \E p \in Peers : Connect(p)
    \/ Notify
    \/ SpuriousNotify
    \/ Pull
    \/ Repoll
    \/ QueryReady
    \/ AcceptStd
    \/ ClearReady
    \/ FromStream

Spec == Init /\ [][Next]_vars

\* The executor runs the consumer when it can run, and the reactor picks up
\* every readiness edge.
LiveSpec == Spec /\ WF_vars(Consumer) /\ WF_vars(Notify)

----------------------------------------------------------------------------
(* The life of a listener: construction by bind or by try_from, and drop.  *)
(* The OS side is the set of paths at which a socket file exists: bind(2)  *)
(* creates the file and fails on a path that exists; close(2) of the       *)
(* socket does not remove it, unlink(2) does.                              *)

lstnVars == <<osVars, reactorVars, woken, inflight, items, ret, pollVars, histVars>>

\* mio_uds::UnixListener::bind(path), line 61: the OS binds a new socket at
\* a path where no file exists.  Paths are valid and writable.
BindResult(files, P) == IF P \in files THEN "err" ELSE "ok"

\* UnixListener::bind, lines 60-64: the error of the OS bind is returned by
\* `?`; PollEvented::new and the struct literal cannot fail.
Bind(P) ==
    /\ lst # "live"
    /\ LET r == BindResult(fs, P)
       IN  /\ ctor' = "bind"
           /\ bindArg' = P
           /\ ctorRes' = r
           /\ registrable' = TRUE
           /\ IF r = "ok"
                THEN /\ lst' = "live"
                     /\ sockname' = P
                     /\ fs' = fs \cup {P}
                     /\ pc' = "idle"
                     /\ prevPath' = NoPath
                ELSE UNCHANGED <<lst, sockname, fs, pc, prevPath>>
    /\ UNCHANGED <<lstnVars, udpVars>>

\* try_from, line 193: from_listener(socket).map(UnixListener::new).  fl is
\* the result of from_listener; UnixListener::new (lines 66-69) returns
\* Self, not a Result, so whether the reactor can register the descriptor
\* (reg) has no part in the result.
TryFromResult(fl, reg) == fl

\* TryFrom<net::UnixListener>, lines 189-195.  The std listener was bound
\* at P before; when from_listener fails it is dropped.
TryFrom(P, reg, fl) ==
    /\ lst # "live"
    /\ BindResult(fs, P) = "ok"
    /\ fs' = fs \cup {P}
    /\ ctor' = "try_from"
    /\ bindArg' = NoPath
    /\ registrable' = reg
    /\ ctorRes' = TryFromResult(fl, reg)
    /\ IF TryFromResult(fl, reg) = "ok"
         THEN /\ lst' = "live"
              /\ sockname' = P
              /\ pc' = "idle"
              /\ prevPath' = NoPath
         ELSE UNCHANGED <<lst, sockname, pc, prevPath>>
    /\ UNCHANGED <<lstnVars, udpVars>>

\* What the drop of the listener does to the filesystem.  UnixListener
\* (lines 42-44) and Incoming (lines 199-201) have no Drop impl: their
\* fields are dropped, the descriptor is closed, no path is unlinked.
DropFs(files, P) == files

\* The consumer drops the listener, or the Incoming that owns it, between
\* two polls: before a pull or while a pull is suspended.
Drop ==
    /\ lst = "live"
    /\ pc \in {"idle", "suspended"}
    /\ lst' = "dropped"
    /\ pc' = "nolistener"
    /\ prevPath' = IF ctor = "bind" THEN sockname ELSE NoPath
    /\ fs' = DropFs(fs, sockname)
    /\ ctor' = "none"
    /\ ctorRes' = "none"
    /\ bindArg' = NoPath
    /\ sockname' = NoPath
    /\ registrable' = TRUE
    /\ ListenerReset
    /\ UNCHANGED udpVars

\* Somebody removes the socket file at P.
Unlink(P) ==
    /\ lst # "live"
    /\ P \in fs
    /\ fs' = fs \ {P}
    /\ UNCHANGED <<lst, ctor, ctorRes, bindArg, sockname, registrable, prevPath,
                   pc, lstnVars, udpVars>>

\* Faulty variant: local_addr answers the address of an unnamed socket.
LocalAddr_Unnamed == NoPath

\* UnixListener::local_addr, lines 83-85: the address of the socket.
LocalAddr == sockname

\* A process that has not made a listener yet.
InitLife ==
    /\ ListenerInit
    /\ pc = "nolistener"
    /\ lst = "none"
    /\ ctor = "none"
    /\ ctorRes = "none"
    /\ bindArg = NoPath
    /\ sockname = NoPath
    /\ registrable = TRUE
    /\ fs = {}
    /\ prevPath = NoPath
    /\ UdpInit

NextLife ==
    \/ \E P \in Paths : Bind(P)
    \/ \E P \in Paths, reg \in BOOLEAN, fl \in {"ok", "err"} : TryFrom(P, reg, fl)
    \/ Drop
    \/ \E P \in Paths : Unlink(P)
    \/ \E p \in Peers : Connect(p)
    \/ Notify
    \/ SpuriousNotify
    \/ Pull
    \/ Repoll
    \/ QueryReady
    \/ AcceptStd
    \/ ClearReady
    \/ FromStream

LifecycleSpec == InitLife /\ [][NextLife]_vars

----------------------------------------------------------------------------
(* tests/udp.rs: a UdpSocket sends a datagram to itself.  The socket is    *)
(* the OS's: a port, and a queue of the datagrams delivered to it.         *)

Min(a, b) == IF a < b THEN a ELSE b

RECURSIVE SeqsUpTo(_)
\* The byte strings of length at most n.
SeqsUpTo(n) ==
    IF n = 0 THEN {<<>>}
    ELSE LET shorter == SeqsUpTo(n - 1)
         IN  shorter \cup {Append(m, b) : m \in {x \in shorter : Len(x) = n - 1}, b \in Bytes}

Msgs == SeqsUpTo(MaxMsgLen)

\* Faulty variant: the receive buffer is one byte short of the message.
BufLen_Short(m) == IF Len(m) > 0 THEN Len(m) - 1 ELSE 0

\* exchange, line 16: vec![0; THE_WINTERS_TALE.len()].
BufLen(m) == Len(m)

\* recv_from(&mut buf) on datagram dg: as many bytes as fit are copied to
\* the front of buf, the rest of the datagram is discarded.
RecvInto(buf, dg) ==
    LET n == Min(Len(buf), Len(dg.data))
    IN  [n |-> n,
         sender |-> dg.from,
         buf |-> [i \in 1..Len(buf) |-> IF i <= n THEN dg.data[i] ELSE buf[i]]]

\* socket_sends_and_receives, line 27: UdpSocket::bind("127.0.0.1:0").
UdpBind ==
    /\ upc = "start"
    /\ \E port \in Ports : uport' = port
    /\ uctor' = "bind"
    /\ upc' = "made"
    /\ UNCHANGED <<uaddr, umsg, ubuf, uflight, uqueue, urecv,
                   pc, lstnVars, lifeVars>>

\* socket_from_std, lines 33-35: std::net::UdpSocket::bind, then try_from.
UdpTryFrom ==
    /\ upc = "start"
    /\ \E port \in Ports : uport' = port
    /\ uctor' = "try_from"
    /\ upc' = "made"
    /\ UNCHANGED <<uaddr, umsg, ubuf, uflight, uqueue, urecv,
                   pc, lstnVars, lifeVars>>

\* exchange, lines 15-16: local_addr and the receive buffer.
UdpLocalAddr ==
    /\ upc = "made"
    /\ uaddr' = uport
    /\ ubuf' = [i \in 1..BufLen(umsg) |-> 0]
    /\ upc' = "ready"
    /\ UNCHANGED <<uctor, uport, umsg, uflight, uqueue, urecv,
                   pc, lstnVars, lifeVars>>

\* exchange, line 18: send_to(msg, &addr).
UdpSendTo ==
    /\ upc = "ready"
    /\ uflight' = Append(uflight, [data |-> umsg, from |-> uport, to |-> uaddr])
    /\ upc' = "sent"
    /\ UNCHANGED <<uctor, uport, uaddr, umsg, ubuf, uqueue, urecv,
                   pc, lstnVars, lifeVars>>

\* The OS delivers a datagram to the socket bound to its destination.
UdpDeliver ==
    /\ uflight # <<>>
    /\ uflight' = Tail(uflight)
    /\ uqueue' = IF Head(uflight).to = uport
                   THEN Append(uqueue, [data |-> Head(uflight).data,
                                        from |-> Head(uflight).from])
                   ELSE uqueue
    /\ UNCHANGED <<upc, uctor, uport, uaddr, umsg, ubuf, urecv,
                   pc, lstnVars, lifeVars>>

\* exchange, line 19: recv_from(&mut buf).await completes when a datagram
\* is queued on the socket.
UdpRecvFrom ==
    /\ upc = "sent"
    /\ uqueue # <<>>
    /\ LET r == RecvInto(ubuf, Head(uqueue))
       IN  /\ urecv' = [n |-> r.n, sender |-> r.sender]
           /\ ubuf' = r.buf
    /\ uqueue' = Tail(uqueue)
    /\ upc' = "received"
    /\ UNCHANGED <<uctor, uport, uaddr, umsg, uflight,
                   pc, lstnVars, lifeVars>>

\* exchange, lines 20-21: the two assert_eq!.
UdpAssert ==
    /\ upc = "received"
    /\ upc' = IF urecv.sender = uaddr /\ SubSeq(ubuf, 1, urecv.n) = umsg
                THEN "passed"
                ELSE "panicked"
    /\ UNCHANGED <<uctor, uport, uaddr, umsg, ubuf, uflight, uqueue, urecv,
                   pc, lstnVars, lifeVars>>

\* The test starts with a message to send and no listener in play.
UdpInitAny ==
    /\ ListenerInit
    /\ pc = "nolistener"
    /\ lst = "none"
    /\ ctor = "none"
    /\ ctorRes = "none"
    /\ bindArg = NoPath
    /\ sockname = NoPath
    /\ registrable = TRUE
    /\ fs = {}
    /\ prevPath = NoPath
    /\ upc = "start"
    /\ uctor = "none"
    /\ uport = NoPort
    /\ uaddr = NoPort
    /\ umsg \in Msgs
    /\ ubuf = <<>>
    /\ uflight = <<>>
    /\ uqueue = <<>>
    /\ urecv = NoRecv

UdpNext ==
    \/ UdpBind
    \/ UdpTryFrom
    \/ UdpLocalAddr
    \/ UdpSendTo
    \/ UdpDeliver
    \/ UdpRecvFrom
    \/ UdpAssert

UdpSpec == UdpInitAny /\ [][UdpNext]_vars

----------------------------------------------------------------------------
(* Helpers of the properties.                                              *)

\* The peers of the success items, in the order they were yielded.
OkPeers ==
    LET oks == SelectSeq(items, IsOk)
    IN  [i \in 1..Len(oks) |-> oks[i].peer]

\* The accepted socket poll_ready holds between accept_std and the yield.
InFlight == IF inflight = NoPeer THEN <<>> ELSE <<inflight>>

\* The consumer is between two polls: the last poll_next has returned.
AtRest == pc \in {"idle", "suspended", "ended"} /\ ret # "none"

Last(s) == s[Len(s)]

Yielded(p) == \E i \in 1..Len(items) : IsOk(items[i]) /\ items[i].peer = p

EmptyOutcome(o) == o \in {"empty", "wouldblock"}

----------------------------------------------------------------------------
C3_NoLostWakeup ==
    /\ (pc = "suspended" /\ EmptyOutcome(acc)) => cleared
    /\ (pc = "suspended" /\ backlog # <<>>) => (woken \/ (edge /\ wakerReg))

\* The peer connected after the empty accept and its report reached the
\* registration before the clear: the clear found it and woke the consumer.
C3_Witness ==
    /\ pc = "suspended"
    /\ EmptyOutcome(acc)
    /\ cleared
    /\ cached
    /\ woken
    /\ backlog # <<>>
    /\ ~edge

\* C4 as stated: a pull whose accept found no connection (Ok(None) or
\* WouldBlock) never yields an item; it returns Pending.
C4_Original ==
    (AtRest /\ EmptyOutcome(acc)) => ret = "Pending"

\* C4 as amended: a pull whose accept found no connection has cleared the
\* readiness flag, never yields a success item and never ends the stream; it
\* returns Pending and suspends, unless clear_read_ready itself failed, and
\* then it yields that failure as an error item.
C4_EmptyAcceptPending ==
    (AtRest /\ EmptyOutcome(acc)) =>
        /\ cleared
        /\ pc # "ended"
        /\ ret \in {"Pending", "SomeErr"}
        /\ ret = "Pending" => pc = "suspended"
        /\ ret = "SomeErr" => (pc = "idle" /\ Last(items) = ErrItem /\ failed = "clear")

\* The pull found no connection and is pending; a peer connected afterwards
\* and the consumer has been woken for it.
C4_Witness ==
    /\ AtRest
    /\ EmptyOutcome(acc)
    /\ ret = "Pending"
    /\ backlog # <<>>
    /\ woken

\* C5: a failing call of a pull yields one error item and leaves the
\* consumer idle, free to pull again; a failing accept moreover leaves the
\* backlog untouched and the readiness flag set, so that the next pull
\* attempts the accept again without waiting, and yields a further error
\* item if the accept fails again.
C5_ErrorKeepsStream ==
    [][ /\ (nErr' > nErr) =>
             /\ ret' = "SomeErr"
             /\ pc' = "idle"
             /\ Len(items') = Len(items) + 1
             /\ IsErr(Last(items'))
        /\ (nAcceptErr' > nAcceptErr) =>
             /\ items' = Append(items, ErrItem)
             /\ nAcceptErrItems' = nAcceptErrItems + 1
             /\ backlog' = backlog
             /\ cached'
      ]_vars

\* Two pulls in a row yielded the error of a failing accept, and the pull
\* after them yielded a connection.
C5_Witness ==
    /\ Len(items) = 3
    /\ IsErr(items[1])
    /\ IsErr(items[2])
    /\ IsOk(items[3])
    /\ nAcceptErrItems = 2

\* C6: poll_next returns Pending, Some(Ok) or Some(Err), whatever the
\* readiness query and the accept did, and never None: the consumer's loop
\* is never ended by the stream.
C6_NeverEnds ==
    /\ ret \in {"none", "Pending", "SomeOk", "SomeErr"}
    /\ pc # "ended"
    /\ AtRest =>
         /\ rdy = "Pending" => ret = "Pending"
         /\ rdy = "Err" => ret = "SomeErr"
         /\ acc = "conn" => ret \in {"SomeOk", "SomeErr"}
         /\ acc = "err" => ret = "SomeErr"
         /\ EmptyOutcome(acc) => ret \in {"Pending", "SomeErr"}

\* The stream has returned all three: a success, an error and now Pending.
C6_Witness ==
    /\ ret = "Pending"
    /\ \E i \in 1..Len(items) : IsOk(items[i])
    /\ \E i \in 1..Len(items) : IsErr(items[i])

\* C7: every accept that finds nothing answers a readiness report of its
\* own (there are never more empty accepts than reports); a consumer that
\* is suspended and not woken has the flag cleared, no unconsumed report and
\* its waker registered; and from there it stays suspended, with no accept
\* and no wake-up, until the readiness source reports again.
C7_NoBusySpin ==
    /\ [](nEmpty <= nNotify)
    /\ []((pc = "suspended" /\ ~woken) => (~cached /\ ~event /\ wakerReg))
    /\ [][(pc = "suspended" /\ ~woken /\ nNotify' = nNotify) =>
            (pc' = "suspended" /\ ~woken' /\ nAcc' = nAcc /\ nEmpty' = nEmpty)]_vars

\* One connection was yielded, the next pull found the backlog empty once,
\* cleared the flag and is suspended.
C7_Witness ==
    /\ pc = "suspended"
    /\ ~woken
    /\ backlog = <<>>
    /\ Len(items) = 1
    /\ nEmpty = 1
    /\ cleared

\* C8: a poll calls accept_std at most once, and only after its readiness
\* query answered Ready; a poll whose query answered Ready has called it
\* exactly once when it returns; a poll whose query answered Pending has
\* registered the waker, called no accept and is suspended.
C8_AcceptOnlyWhenReady ==
    /\ nAcc <= 1
    /\ nAcc = 1 => rdy = "Ready"
    /\ pc = "accept" => (rdy = "Ready" /\ nAcc = 0)
    /\ AtRest =>
         /\ rdy = "Ready" => nAcc = 1
         /\ rdy = "Err" => nAcc = 0
         /\ rdy = "Pending" => (nAcc = 0 /\ wakerSet /\ pc = "suspended")

\* A connection is queued but not yet reported: the poll did not touch the
\* socket and is suspended.
C8_Witness ==
    /\ pc = "suspended"
    /\ rdy = "Pending"
    /\ nAcc = 0
    /\ backlog # <<>>
    /\ edge

\* C9: the error items that report a failed accept are as many as the
\* accepts that failed; the poll whose accept failed returns that error,
\* and an error item of a poll whose accept did not fail is not an accept
\* error.
C9_AcceptErrorOnce ==
    /\ nAcceptErrItems = nAcceptErr
    /\ nAcceptErrItems <= Cardinality({i \in 1..Len(items) : IsErr(items[i])})
    /\ (AtRest /\ acc = "err") =>
          (ret = "SomeErr" /\ pc = "idle" /\ Last(items) = ErrItem /\ failed = "accept")
    /\ (AtRest /\ acc # "err" /\ ret = "SomeErr") => failed \in {"query", "clear", "from_stream"}

\* One accept failed and was yielded once; the pulls after it yielded a
\* connection and then an error that is not an accept error.
C9_Witness ==
    /\ nAcceptErr = 1
    /\ nAcceptErrItems = 1
    /\ Len(items) = 3
    /\ IsErr(items[1])
    /\ IsOk(items[2])
    /\ IsErr(items[3])
    /\ failed = "from_stream"
    /\ pc = "idle"

----------------------------------------------------------------------------
(* The per-pull state machine of the specification.                       *)

Phase ==
    CASE pc = "idle"                              -> "Idle"
      [] pc \in {"query", "suspended"}            -> "AwaitingReadiness"
      [] pc \in {"accept", "clear", "from_stream"} -> "Attempting"
      [] pc = "ended"                             -> "Terminal"

\* Idle -> AwaitingReadiness -> Attempting -> (Emit&Idle | AwaitingReadiness)
PullMachineStep ==
    LET emit == items' # items
    IN  \/ Phase' = Phase /\ ~emit
        \/ Phase = "Idle" /\ Phase' = "AwaitingReadiness" /\ ~emit
        \/ Phase = "AwaitingReadiness" /\ Phase' = "Attempting" /\ ~emit
              /\ rdy' = "Ready"
        \/ Phase = "Attempting" /\ Phase' = "Idle" /\ emit
              /\ acc' \in {"conn", "err"}
        \/ Phase = "Attempting" /\ Phase' = "AwaitingReadiness" /\ ~emit
              /\ EmptyOutcome(acc')

\* The two steps on which a failure of the readiness source is emitted.
ReadinessFailureStep ==
    \/ /\ Phase = "AwaitingReadiness" /\ Phase' = "Idle"
        /\ rdy' = "Err"
        /\ failed' = "query"
        /\ items' = Append(items, ErrItem)
    \/ /\ Phase = "Attempting" /\ Phase' = "Idle"
        /\ EmptyOutcome(acc')
        /\ failed' = "clear"
        /\ items' = Append(items, ErrItem)

\* C10 as stated: every step of a pull is a step of the state machine; an
\* item is emitted only from Attempting, on accepted or on hard error.
C10_Original == [][PullMachineStep]_vars

\* C10 as amended: every step of a pull is a step of the state machine, or
\* emits the failure of the readiness source as an error item: from
\* AwaitingReadiness when the readiness query fails, from the empty-accept
\* branch when the readiness clear fails.
C10_PullMachine == [][PullMachineStep \/ ReadinessFailureStep]_vars

\* A connection was emitted from Attempting, and the next pull emitted the
\* failure of its readiness query from AwaitingReadiness.
C10_Witness ==
    /\ Len(items) = 2
    /\ IsOk(items[1])
    /\ IsErr(items[2])
    /\ failed = "query"
    /\ Phase = "Idle"

\* The number of connections accept_std has taken from the backlog; as
\* peers are named in their order of arrival, also the last peer taken.
Taken == Len(connected) - Len(backlog)

\* C11: the backlog shrinks only by the accept of a poll, by one connection,
\* and that accept is the poll's only one; between two polls (idle or
\* suspended) the stream holds no accepted socket, so every connection not
\* yet yielded or dropped is still in the OS backlog.
C11_LazyUnbuffered ==
    /\ [](pc \in {"idle", "suspended"} => inflight = NoPeer)
    /\ [](pc \in {"idle", "suspended"} =>
            Len(backlog) = Len(connected) - Len(OkPeers) - Cardinality(dropped))
    /\ [][backlog' # backlog =>
            \/ backlog' = Append(backlog, Len(connected) + 1)
            \/ /\ pc = "accept"
               /\ backlog' = Tail(backlog)
               /\ nAcc = 0 /\ nAcc' = 1]_vars

\* Two peers connected, one pull yielded the first, and the second stays in
\* the backlog while the consumer is between pulls.
C11_Witness ==
    /\ pc = "idle"
    /\ Len(items) = 1
    /\ IsOk(items[1])
    /\ backlog = <<2>>
    /\ inflight = NoPeer

\* C16: from a state with nothing to accept, Ok(None) and WouldBlock take
\* the same step: each goes on to the readiness clear and changes nothing
\* else of the listener; the clear that follows returns Pending (or its own
\* failure) without looking at which of the two it was.
C16_EmptyAndWouldBlockAlike ==
    /\ [][(pc = "accept" /\ EmptyOutcome(acc')) =>
            /\ pc' = "clear"
            /\ nEmpty' = nEmpty + 1
            /\ UNCHANGED <<backlog, inflight, event, cached, wakerReg, woken,
                           items, ret, cleared, failed, nErr>>]_vars
    /\ [](pc = "clear" => (EmptyOutcome(acc) /\ ~cleared))
    /\ [][(pc = "clear" /\ pc' # "clear") =>
            /\ cleared'
            /\ acc' = acc
            /\ \/ /\ ret' = "Pending"
                  /\ pc' = "suspended"
                  /\ cached' = event
                  /\ event => woken'
               \/ /\ ret' = "SomeErr"
                  /\ failed' = "clear"]_vars

\* The accept answered WouldBlock; the pull cleared the flag, registered the
\* waker and is pending.
C16_Witness ==
    /\ pc = "suspended"
    /\ acc = "wouldblock"
    /\ cleared
    /\ ~cached
    /\ wakerReg
    /\ ret = "Pending"

\* C17: the readiness flag goes from set to cleared only in the clear that
\* follows an empty accept; a poll that accepted a connection or returned a
\* hard accept error has not called the clear and leaves the flag set, so
\* the readiness query of the next pull answers Ready at once.
C17_ClearOnlyOnEmpty ==
    /\ [][(cached /\ ~cached') => (pc = "clear" /\ EmptyOutcome(acc))]_vars
    /\ []((AtRest /\ acc \in {"conn", "err"}) => (cached /\ ~cleared))
    /\ []((pc = "query" /\ cached) => PollReadReady(cached, event, wakerReg).res = "Ready")

\* A connection was accepted; a second one is queued and no report for it
\* is outstanding: the flag is still set for the next pull.
C17_Witness ==
    /\ pc = "idle"
    /\ acc = "conn"
    /\ cached
    /\ ~cleared
    /\ backlog # <<>>
    /\ ~edge
    /\ ~event

\* C18: a poll that returned Pending has registered the consumer's waker in
\* that poll, by the readiness query that answered Pending or by the clear;
\* and a suspended consumer has its waker registered or has been woken.
C18_PendingHasWaker ==
    /\ (AtRest /\ ret = "Pending") => wakerSet
    /\ (AtRest /\ ret = "Pending") => (rdy = "Pending" \/ cleared)
    /\ pc = "suspended" => (wakerReg \/ woken)

\* The query answered Ready without registering (the flag was set), the
\* accept was empty, and the clear registered the waker.
C18_Witness ==
    /\ pc = "suspended"
    /\ rdy = "Ready"
    /\ cleared
    /\ wakerSet
    /\ wakerReg
    /\ ~woken
    /\ Len(items) > 0

\* C19 as stated: a poll whose accept took a connection from the backlog
\* yields that connection as a success item.
C19_Original ==
    (AtRest /\ acc = "conn") => (ret = "SomeOk" /\ Last(items) = OkItem(Taken))

\* C19 as amended: a poll whose accept took a connection never returns
\* Pending; it yields that connection as a success item, unless from_stream
\* fails on the accepted socket, and then it yields that error and the
\* socket is dropped.  Every connection taken is yielded, dropped that way,
\* or being converted.
C19_AcceptedIsYielded ==
    /\ (AtRest /\ acc = "conn") =>
          \/ ret = "SomeOk" /\ Last(items) = OkItem(Taken) /\ Taken \notin dropped
          \/ ret = "SomeErr" /\ failed = "from_stream" /\ Taken \in dropped
                /\ ~Yielded(Taken)
    /\ 1..Taken = Range(OkPeers) \cup dropped \cup Range(InFlight)
    /\ Cardinality(dropped) <= nErr

\* The first connection was taken and lost to a failing from_stream; the
\* second was taken by the next pull and yielded.
C19_Witness ==
    /\ dropped = {1}
    /\ Len(items) = 2
    /\ IsErr(items[1])
    /\ items[2] = OkItem(2)
    /\ acc = "conn"
    /\ pc = "idle"

\* C12: try_from of a listener whose descriptor the reactor cannot
\* register fails in the constructor and makes no listener, and no pull
\* then yields the failed registration.
C12_AdoptFailsAtOnce ==
    /\ (ctor = "try_from" /\ ~registrable) => (ctorRes = "err" /\ lst # "live")
    /\ ~registrable => failed # "query"

\* C13: once a listener bound at a path was dropped, the next bind at that
\* path does not fail.
C13_RebindAfterDrop ==
    ~(/\ lst = "dropped"
      /\ prevPath # NoPath
      /\ ctor = "bind"
      /\ bindArg = prevPath
      /\ ctorRes = "err")

\* C14: a listener made by bind(P) answers P to local_addr, before the
\* first pull, during a poll and after any number of pulls.
C14_LocalAddrIsBoundPath ==
    (lst = "live" /\ ctor = "bind") =>
        (ctorRes = "ok" /\ bindArg \in Paths /\ LocalAddr = bindArg)

\* A listener bound at the second path, after the leftover of an earlier
\* listener at the first, has yielded a connection and is pending in
\* its next pull.
C14_Witness ==
    /\ lst = "live"
    /\ ctor = "bind"
    /\ bindArg = "/tmp/x.sock"
    /\ DocPath \in fs
    /\ Len(items) = 1
    /\ pc = "suspended"
    /\ LocalAddr = "/tmp/x.sock"

TypeOK ==
    /\ pc \in {"idle", "query", "accept", "clear", "from_stream", "suspended", "ended",
              "nolistener"}
    /\ ret \in {"none", "Pending", "SomeOk", "SomeErr", "None"}
    /\ inflight \in Peers \cup {NoPeer}
    /\ nErr \in 0..MaxErrs
====
